---- MODULE Spec2Model ----
(***************************************************************************)
(* Model of the SmartContractGen back end: the build-retry loop of         *)
(* back/ai/contract_updater.py (smart_contract_build_loop), the file       *)
(* writers update_contract / generate_smart_contract, and the deploy       *)
(* runners of back/ai/automation.py and back/ai/contract_updater.py.       *)
(*                                                                         *)
(* Text files are modelled as sequences of lines (tokens).  A token stands *)
(* for one line of text; the predicates below say which Python substrings  *)
(* the line contains, so that `x in text`, str.replace and re.sub are      *)
(* computed on the token sequence the way the code computes them on the    *)
(* text.                                                                   *)
(***************************************************************************)
EXTENDS Integers, Sequences, FiniteSets, TLC

\* ------------------------------------------------------------------------
\* Bounds of the model
\* ------------------------------------------------------------------------

\* longest file (in tokens) the pure-function specification starts from
MaxLen == 3

\* largest max_attempts a caller passes
MaxAttempts == 3

\* ------------------------------------------------------------------------
\* Sequence helpers
\* ------------------------------------------------------------------------

SeqsUpTo(S, n) == UNION {[1..k -> S] : k \in 0..n}

\* Python: any(P(line) for line in text) is written with \E at the call site.
Range(s) == {s[i] : i \in 1..Len(s)}

\* str.replace(old, new) where old is one line and new a sequence of lines
RECURSIVE ReplaceToken(_, _, _)
ReplaceToken(s, old, new) ==
    IF s = <<>> THEN <<>>
    ELSE (IF Head(s) = old THEN new ELSE <<Head(s)>>)
         \o ReplaceToken(Tail(s), old, new)

\* ------------------------------------------------------------------------
\* Anchor.toml / Cargo.toml lines
\* ------------------------------------------------------------------------

FEATURES == "[features]"
IDL_TRUE == "idl-build = true"
IDL_FALSE == "idl-build = false"
IDL_CARGO == "idl-build = [\"anchor-lang/idl-build\"]"
ANCHOR_WS == "anchor-lang = { workspace = true }"
ANCHOR_INIT == "anchor-lang = { workspace = true, features = [\"init-if-needed\"] }"
ANCHOR_VER == "anchor-lang = { version = \"0.29.0\", features = [\"init-if-needed\"] }"
PROFILE_HDR == "[profile.release]"
TOML_OTHER == "[package]"

\* the text appended at contract_updater.py:440-449, line by line
ProfileBlock ==
    << PROFILE_HDR, "overflow-checks = true", "lto = \"fat\"",
       "codegen-units = 1", "[profile.release.build-override]",
       "opt-level = 3", "incremental = false", "codegen-units = 1" >>

\* 'idl-build' in text
HasIdlBuild(toml) == \E l \in Range(toml) : l \in {IDL_TRUE, IDL_FALSE, IDL_CARGO}

\* 'idl-build = true' in text
HasIdlBuildTrue(toml) == \E l \in Range(toml) : l = IDL_TRUE

\* 'init-if-needed' in text
HasInitIfNeeded(toml) == \E l \in Range(toml) : l \in {ANCHOR_INIT, ANCHOR_VER}

\* '[profile.release]' in text
HasProfileRelease(toml) == \E l \in Range(toml) : l = PROFILE_HDR

\* Pre-process of Anchor.toml (the file is rewritten only when it changes)
EnsureAnchorIdl(toml) ==
    IF ~HasIdlBuild(toml)
    THEN ReplaceToken(toml, FEATURES, <<FEATURES, IDL_TRUE>>)
    ELSE toml

\* Quick fix of Anchor.toml after a failed build
QuickFixAnchorIdl(toml) ==
    IF ~HasIdlBuildTrue(toml)
    THEN ReplaceToken(toml, FEATURES, <<FEATURES, IDL_TRUE>>)
    ELSE toml

CargoIdl(toml) ==
    IF ~HasIdlBuild(toml)
    THEN ReplaceToken(toml, FEATURES, <<FEATURES, IDL_CARGO>>)
    ELSE toml

CargoInitIfNeeded(toml) ==
    IF ~HasInitIfNeeded(toml)
    THEN ReplaceToken(toml, ANCHOR_WS, <<ANCHOR_INIT>>)
    ELSE toml

\* an append of the profile block without the test of line 438
CargoProfileUnguarded(toml) == toml \o ProfileBlock

\* lines 437-449
CargoProfile(toml) ==
    IF ~HasProfileRelease(toml) THEN toml \o ProfileBlock ELSE toml

\* Pre-process of programs/deploy/Cargo.toml: the three edits in order
PatchCargoToml(toml) == CargoProfile(CargoInitIfNeeded(CargoIdl(toml)))

\* ------------------------------------------------------------------------
\* lib.rs lines
\* ------------------------------------------------------------------------

\* program IDs: base58 strings of 32..44 characters
PidA == "PidA"
PidB == "PidB"
\* a declare_id! argument that is not a base58 ID (e.g. a placeholder name)
BadId == "YOUR_PROGRAM_ID"
\* the ID update_contract falls back to (contract_updater.py:69)
DefaultId == "8a76RhBfP78tuN2WtZaP11ESgeCStcfb9E78Pf9wz4Yg"
\* the ID of generate_contract_with_ai's fallback contract
FallbackId == "CxEvoPT1kHshLT8GoDVS1mKJqeYNGiNzN4puGei9tXKq"

Base58Ids == {PidA, PidB, DefaultId, FallbackId}

Tok(k, id) == [k |-> k, id |-> id]

\* "use anchor_lang::prelude::*;" : a statement, ends with ';'
UseLine == Tok("use", "")
\* declare_id!("<id>");
Decl(id) == Tok("decl", id)
\* a line that mentions declare_id! without the ("...") ; form
DeclComment == Tok("declcomment", "")
\* a line that mentions an ID outside declare_id! (a Pubkey constant)
Mention(id) == Tok("mention", id)
AccountAttr == Tok("#[account]", "")
DeriveDefault == Tok("#[derive(Default)]", "")
PubStruct == Tok("pub struct", "")
ProgramAttr == Tok("#[program]", "")

\* ';' in line
HasSemicolon(t) == t.k \in {"use", "decl", "mention"}

\* 'declare_id!' in text
HasDeclareIdText(code) == \E t \in Range(code) : t.k \in {"decl", "declcomment"}

\* f'declare_id!("{program_id}");' in text
HasDeclareIdOf(code, id) == \E t \in Range(code) : t = Decl(id)

\* program_id in text
MentionsId(code, id) == \E t \in Range(code) : t.k \in {"decl", "mention"} /\ t.id = id

\* re.sub(r'declare_id!\("([^"]*)"\);', f'declare_id!("{program_id}");', code)
RECURSIVE SubDeclareId(_, _)
SubDeclareId(code, id) ==
    IF code = <<>> THEN <<>>
    ELSE (IF Head(code).k = "decl" THEN <<Decl(id)>> ELSE <<Head(code)>>)
         \o SubDeclareId(Tail(code), id)

\* text.find(";") + 1 : the number of lines up to and including the first
\* line with a ';' (0 when there is none: find returns -1)
RECURSIVE ImportEnd(_)
ImportEnd(code) ==
    IF code = <<>> THEN 0
    ELSE IF HasSemicolon(Head(code)) THEN 1
    ELSE IF \E i \in 1..Len(Tail(code)) : HasSemicolon(Tail(code)[i])
         THEN 1 + ImportEnd(Tail(code))
         ELSE 0

\* text[:import_end] + declare_id + text[import_end:]
InsertDeclareId(code, id) ==
    SubSeq(code, 1, ImportEnd(code)) \o <<Decl(id)>>
    \o SubSeq(code, ImportEnd(code) + 1, Len(code))

\* re.search(r'declare_id!\("([1-9A-HJ-NP-Za-km-z]{32,44})"\);', code):
\* the index of the first matching line, 0 when there is none
FirstBase58Decl(code) ==
    IF \E i \in 1..Len(code) : code[i].k = "decl" /\ code[i].id \in Base58Ids
    THEN CHOOSE i \in 1..Len(code) :
            /\ code[i].k = "decl" /\ code[i].id \in Base58Ids
            /\ \A j \in 1..(i-1) : ~(code[j].k = "decl" /\ code[j].id \in Base58Ids)
    ELSE 0

\* Python's None
None == "None"

extract_program_id_from_contract(code) ==
    IF FirstBase58Decl(code) = 0 THEN None ELSE code[FirstBase58Decl(code)].id

\* a rewrite that inserts a declare_id! line without looking for one
SetDeclareIdAlwaysInsert(code, id) == InsertDeclareId(SubDeclareId(code, id), id)

\* The rewrite of lib.rs once the program ID is known (build loop, success)
SetDeclareId(code, id) ==
    IF ~HasDeclareIdOf(code, id)
    THEN IF ~HasDeclareIdText(SubDeclareId(code, id))
         THEN InsertDeclareId(SubDeclareId(code, id), id)
         ELSE SubDeclareId(code, id)
    ELSE code

\* re.sub(r'#\[account\](\s+)pub struct ([A-Za-z0-9_]+)',
\*        r'#[account]\n#[derive(Default)]\1pub struct \2', code)
RECURSIVE StackQuickFix(_)
StackQuickFix(code) ==
    IF Len(code) < 2 THEN code
    ELSE IF Head(code) = AccountAttr /\ code[2] = PubStruct
         THEN <<AccountAttr, DeriveDefault, PubStruct>>
              \o StackQuickFix(Tail(Tail(code)))
         ELSE <<Head(code)>> \o StackQuickFix(Tail(code))

\* ------------------------------------------------------------------------
\* LLM responses and the code extracted from them
\* ------------------------------------------------------------------------

\* a Markdown code-fence line opening a rust block, and a bare fence line
FenceRust == Tok("fence rust", "")
Fence == Tok("fence", "")

\* an optional code string: Python's None or a str
NoCode == [ok |-> FALSE, code |-> <<>>]
Code(c) == [ok |-> TRUE, code |-> c]

\* the outcome of ai_client.messages.create: an exception, a response with no
\* usable content, or a response whose first content block has this text
LLM_RAISE == [kind |-> "raise", text |-> <<>>]
LLM_NOCONTENT == [kind |-> "nocontent", text |-> <<>>]
LLMText(t) == [kind |-> "text", text |-> t]

IsFence(t) == t \in {FenceRust, Fence}
NotFence(t) == ~IsFence(t)

\* text.strip() with the code-fence markers replaced by "" and stripped again,
\* None when the response has no content or nothing is left
extract_code_from_ai_response(resp) ==
    IF resp.kind # "text" THEN NoCode
    ELSE IF SelectSeq(resp.text, NotFence) = <<>> THEN NoCode
    ELSE Code(SelectSeq(resp.text, NotFence))

\* the minimal contract generate_contract_with_ai returns when the API raises
FallbackContract == <<UseLine, Decl(FallbackId), ProgramAttr, PubStruct>>

\* generate_contract_with_ai: the API call inside try/except
generate_contract_with_ai(resp) ==
    IF resp.kind = "raise" THEN Code(FallbackContract)
    ELSE extract_code_from_ai_response(resp)

\* Python truthiness of a str-or-None
Truthy(x) == x \notin {None, ""}

\* deploy/program-info.json
NoInfo == [exists |-> FALSE, programId |-> None]
Info(id) == [exists |-> TRUE, programId |-> id]

\* contract_updater.extract_program_id_from_deployed_contract: program-info.json,
\* then the declare_id! of the deployed lib.rs, then solana-keygen on the keypair
\* (keygen is the command's stripped output, None when the file is missing or
\* the command raises)
extract_program_id_from_deployed_contract(info, lib, keygen) ==
    IF info.exists THEN info.programId
    ELSE IF lib.exists /\ extract_program_id_from_contract(lib.data) # None
         THEN extract_program_id_from_contract(lib.data)
    ELSE keygen

\* an update that looks at the deployment before the supplied code
SelectProgramIdDeployedFirst(contract_code, info, lib, keygen) ==
    IF Truthy(extract_program_id_from_deployed_contract(info, lib, keygen))
    THEN extract_program_id_from_deployed_contract(info, lib, keygen)
    ELSE IF Truthy(extract_program_id_from_contract(contract_code))
         THEN extract_program_id_from_contract(contract_code)
         ELSE DefaultId

\* update_contract, lines 64-70: the program ID the update uses
SelectProgramId(contract_code, info, lib, keygen) ==
    IF Truthy(extract_program_id_from_contract(contract_code))
    THEN extract_program_id_from_contract(contract_code)
    ELSE IF Truthy(extract_program_id_from_deployed_contract(info, lib, keygen))
         THEN extract_program_id_from_deployed_contract(info, lib, keygen)
         ELSE DefaultId

\* update_contract, lines 153-166
EnsureProgramId(code, id) ==
    IF ~MentionsId(code, id)
    THEN IF HasDeclareIdText(code) THEN SubDeclareId(code, id)
         ELSE InsertDeclareId(code, id)
    ELSE code

\* update_contract's return value: None when the API call raises or the
\* response holds no code (the TypeError of `program_id not in None` is caught)
UpdatedContract(resp, id) ==
    IF resp.kind = "raise" \/ ~extract_code_from_ai_response(resp).ok THEN NoCode
    ELSE Code(EnsureProgramId(extract_code_from_ai_response(resp).code, id))

\* ------------------------------------------------------------------------
\* Build output and the error log
\* ------------------------------------------------------------------------

\* lines of compiler output
L_STACK == "Error: Function f Stack offset of 4104 exceeded max offset of 4096 by 8 bytes"
L_STACK_NOTE == "note: Stack offset of 4104 exceeded max offset of 4096"
L_IDL_MISSING == "Error: idl-build feature is missing"
L_IDL == "error: package deploy does not have feature idl-build"
L_BORROW == "error[E0502]: cannot borrow x as mutable because it is also borrowed as immutable"
L_MOVE == "error[E0382]: use of moved value: x"
L_QUESTION == "error[E0277]: the ? operator can only be used in a function that returns Result"
L_SUMMARY == "error: could not compile deploy due to previous error; 1 warning emitted"
L_WARNING == "warning: unused variable: x"
L_INFO == "Compiling deploy v0.1.0"
\* f"Exception occurred: {str(e)}"
L_EXCEPTION == "Exception occurred: [Errno 2] No such file or directory"

\* "error" in line.lower()
HasErrorWord(l) ==
    l \in {L_STACK, L_IDL_MISSING, L_IDL, L_BORROW, L_MOVE, L_QUESTION, L_SUMMARY}

\* "warning" in line.lower()
HasWarningWord(l) == l \in {L_SUMMARY, L_WARNING}

\* the filter of lines 606-608
IsErrorLine(l) == HasErrorWord(l) /\ ~HasWarningWord(l)

\* error_lines[-10:] keeps this many lines
ErrTail == 10

LastLines(s, n) == IF Len(s) <= n THEN s ELSE SubSeq(s, Len(s) - n + 1, Len(s))

\* lines 600-610: stderr, or stdout when stderr is empty, filtered and cut
FilterErrorLog(out) ==
    LastLines(SelectSeq(IF out.stderr # <<>> THEN out.stderr ELSE out.stdout,
                        IsErrorLine), ErrTail)

\* "Stack offset" in error_log or "exceeded max offset" in error_log
StackSig(log) == \E l \in Range(log) : l \in {L_STACK, L_STACK_NOTE}

\* "idl-build" in error_log
IdlSig(log) == \E l \in Range(log) : l \in {L_IDL_MISSING, L_IDL}

\* "idl-build feature is missing" in error_log
IdlMissingSig(log) == \E l \in Range(log) : l = L_IDL_MISSING

\* borrow / move errors and the ? operator error: the code has no test for them
BorrowSig(log) == \E l \in Range(log) : l \in {L_BORROW, L_MOVE}
QuestionSig(log) == \E l \in Range(log) : l = L_QUESTION

Output(err, out) == [stderr |-> err, stdout |-> out]

\* what a failed anchor build may print
BuildOutputs ==
    { Output(<<L_INFO, L_STACK, L_SUMMARY>>, <<>>),
      Output(<<L_IDL_MISSING>>, <<>>),
      Output(<<L_BORROW, L_SUMMARY>>, <<>>),
      Output(<<L_QUESTION>>, <<>>),
      Output(<<L_WARNING, L_SUMMARY>>, <<L_STACK>>),
      Output(<<>>, <<L_INFO>>) }

\* lines 485-502: the update requirements of attempts 2.. : the attempt the
\* prompt names, the error log, and which specific instructions are appended
NoReq == [named |-> 0, log |-> <<>>, stack |-> FALSE, idl |-> FALSE]
UpdateRequirements(attempt_, log) ==
    [named |-> attempt_ - 1, log |-> log, stack |-> StackSig(log), idl |-> IdlSig(log)]

\* ------------------------------------------------------------------------
\* Paths
\* ------------------------------------------------------------------------

RootDir == <<"root">>
BackDir == <<"root", "back">>
DeployDir == <<"root", "deploy">>
LibRsRel == <<"deploy", "programs", "deploy", "src", "lib.rs">>

\* root_dir / "deploy" / "programs" / "deploy" / "src" / "lib.rs"
LibRsPath == RootDir \o LibRsRel

\* contract_generator.CONTRACT_OUTPUT_PATH, relative to the working directory
CONTRACT_OUTPUT_PATH == <<"..">> \o LibRsRel

\* an output path a caller passes explicitly
CustomPath == <<"root", "out", "custom.rs">>

\* the operating system's resolution of a relative path against the cwd
RECURSIVE Resolve(_, _)
Resolve(dir, rel) ==
    IF rel = <<>> THEN dir
    ELSE IF Head(rel) = ".."
         THEN Resolve(IF dir = <<>> THEN <<>> ELSE SubSeq(dir, 1, Len(dir) - 1), Tail(rel))
         ELSE Resolve(Append(dir, Head(rel)), Tail(rel))

\* where CONTRACT_OUTPUT_PATH lands when the cwd is the repository root
OutsidePath == Resolve(RootDir, CONTRACT_OUTPUT_PATH)

\* mutating requests served by one run; contract ids: one per request at most
MaxRequests == 2

ContractIds == 1..MaxRequests

\* <root>/contracts/<contract_id>/updated_contract.rs
UpdatedContractPath(id) == <<"root", "contracts", id, "updated_contract.rs">>

RustPaths ==
    {LibRsPath, OutsidePath, CustomPath} \cup {UpdatedContractPath(id) : id \in ContractIds}

NoFile == [exists |-> FALSE, data |-> <<>>]
File(data) == [exists |-> TRUE, data |-> data]

\* ------------------------------------------------------------------------
\* State
\* ------------------------------------------------------------------------

VARIABLES
    \* the disk and the process
    fs,            \* the Rust source files on disk, by absolute path
    anchorToml,    \* deploy/Anchor.toml
    cargoToml,     \* deploy/programs/deploy/Cargo.toml
    programInfo,   \* deploy/program-info.json
    keypair,       \* public key of target/deploy/deploy-keypair.json, None if absent
    cwd,           \* the process's working directory
    \* smart_contract_build_loop
    pc,            \* position in the function
    max_attempts,
    attempt,
    program_id,
    error_log,
    contract_code,
    result,        \* the returned (success, program_id)
    \* what the run has done so far (history, not program state)
    iterations,    \* loop bodies entered
    llmCalls,      \* requests sent to the LLM
    builds,        \* first `anchor build` of an iteration: how many ran
    buildOk,       \* one of them exited 0
    lastBuild,     \* the most recent `anchor build`: the lib.rs it compiled, its exit
    lastReq,       \* update requirements of the most recent update_contract call
    logFrom,       \* the attempt whose build produced error_log (0: none)
    reqFrom,       \* logFrom at the most recent update_contract call
    lastFail,      \* the most recent failed build: raw output, filtered log, quick fixes
    infoBefore,    \* program-info.json as it was when the function was called
    \* the process that calls the operations
    ops,           \* operations called so far
    lastGen,       \* the most recent generate_smart_contract without output_path
    lastUpdate,    \* the most recent update_contract call
    outsideDir,    \* the directory CONTRACT_OUTPUT_PATH names from the root exists
    \* the rewrites applied in isolation
    patchKind,     \* which rewrite is applied
    patchRuns,     \* how many times it has been applied
    patchPrev,     \* the file content before the latest application
    \* one run of a deploy runner and of the deployment script it starts
    dRunner,       \* which runner was called
    dPc,           \* the runner: not called, running, returned
    dRet,          \* what the runner returned
    script,        \* the script: not started, running, waiting for input, exited
    exitCode,      \* the script's exit code
    stdout,        \* what the script has written that the runner has not read
    stdin,         \* lines written to the script's stdin that it has not read
    emitted,       \* writes of the script so far
    asked,         \* prompts the script has emitted
    answered,      \* `y` lines the runner has written
    \* the API server of back/main.py
    contracts,     \* the in-memory dict `contracts`, by contract id
    contractsFile, \* a JSON file holding the contract entries
    stored,        \* by id: the code most recently stored by a successful request
    apiReq,        \* the most recent request: its endpoint and id
    apiResp,       \* its response
    requests,      \* mutating requests served so far
    \* one run of ContractAutomation.run_automation from a command line
    autoPc,        \* the step the run is at
    autoFlag,      \* the command line carried --deploy
    autoAnswer,    \* what the user typed at the deploy question, None before
    autoRet,       \* what run_automation returned, None before
    autoSteps,     \* the steps run so far, each with its result
    autoGen,       \* generate_contract: the code the LLM produced and what it returned
    \* one run of deploy_contract() of ai/deploy_contract.py
    valPc,         \* the step the run is at
    valChecks,     \* `solana cluster-version` checks made while waiting
    valConfirmed,  \* a `solana cluster-version` check has exited 0
    valCalls,      \* the commands the run has invoked
    valRet,        \* what deploy_contract returned
    configFile,    \* back/test-config.json
    \* the server of back/ai/main.py
    aiReq,         \* the request being answered
    aiResp,        \* its response
    aiServed       \* requests answered so far

fileVars == <<fs, anchorToml, cargoToml, programInfo, keypair, cwd>>
loopVars == <<pc, max_attempts, attempt, program_id, error_log, contract_code, result>>
histVars == <<iterations, llmCalls, builds, buildOk, lastBuild, lastReq, logFrom,
              reqFrom, lastFail, infoBefore>>
procVars == <<ops, lastGen, outsideDir>>
patchVars == <<patchKind, patchRuns, patchPrev>>
deployVars == <<dRunner, dPc, dRet, script, exitCode, stdout, stdin, emitted, asked, answered>>
apiVars == <<contracts, contractsFile, stored, apiReq, apiResp, requests>>
autoVars == <<autoPc, autoFlag, autoAnswer, autoRet, autoSteps, autoGen>>
valVars == <<valPc, valChecks, valConfirmed, valCalls, valRet, configFile>>
aiVars == <<aiReq, aiResp, aiServed>>
moreVars == <<autoVars, valVars, aiVars>>
otherVars == <<procVars, patchVars, deployVars, apiVars, moreVars>>
vars == <<fs, anchorToml, cargoToml, programInfo, keypair, cwd,
          pc, max_attempts, attempt, program_id, error_log, contract_code, result,
          iterations, llmCalls, builds, buildOk, lastBuild, lastReq, logFrom,
          reqFrom, lastFail, infoBefore, ops, lastGen, lastUpdate, outsideDir,
          patchKind, patchRuns, patchPrev,
          dRunner, dPc, dRet, script, exitCode, stdout, stdin, emitted, asked, answered,
          contracts, contractsFile, stored, apiReq, apiResp, requests,
          autoPc, autoFlag, autoAnswer, autoRet, autoSteps, autoGen,
          valPc, valChecks, valConfirmed, valCalls, valRet, configFile,
          aiReq, aiResp, aiServed>>

EmptyFs == [p \in RustPaths |-> NoFile]

NoResult == [returned |-> FALSE, success |-> FALSE, program_id |-> None]
Returned(ok, id) == [returned |-> TRUE, success |-> ok, program_id |-> id]

NoBuild == [ran |-> FALSE, ok |-> FALSE, code |-> <<>>]
BuildOf(code, ok) == [ran |-> TRUE, ok |-> ok, code |-> code]

NoFail == [attempt |-> 0, raw |-> Output(<<>>, <<>>), log |-> <<>>, quick |-> {}]

\* the build loop has not been entered
LoopIdle ==
    /\ pc = "idle"
    /\ max_attempts = 0
    /\ attempt = 0
    /\ program_id = None
    /\ error_log = <<>>
    /\ contract_code = NoCode
    /\ result = NoResult

HistInit ==
    /\ iterations = 0
    /\ llmCalls = 0
    /\ builds = 0
    /\ buildOk = FALSE
    /\ lastBuild = NoBuild
    /\ lastReq = NoReq
    /\ logFrom = 0
    /\ reqFrom = 0
    /\ lastFail = NoFail
    /\ infoBefore = programInfo

\* an absent output_path argument
NoPath == <<>>

NoGen == [n |-> 0, ret |-> NoCode, path |-> NoPath]
NoUpdate == [n |-> 0, ret |-> NoCode, path |-> NoPath, id |-> None, keygen |-> None]

ProcIdle ==
    /\ ops = 0
    /\ lastGen = NoGen
    /\ lastUpdate = NoUpdate
    /\ outsideDir = FALSE

DeployIdle ==
    /\ dRunner = "none"
    /\ dPc = "idle"
    /\ dRet = None
    /\ script = "none"
    /\ exitCode = 0
    /\ stdout = <<>>
    /\ stdin = 0
    /\ emitted = 0
    /\ asked = 0
    /\ answered = 0

\* an id that is not a key of the dict, and the entry of one that is
NoEntry == [exists |-> FALSE, contract |-> <<>>, deployed |-> FALSE,
            program_id |-> None, updated |-> FALSE]

NoRequest == [op |-> "none", id |-> 0]
NoResponse == [status |-> 0, contract |-> NoCode]

\* back/main.py:28 : contracts = {}
ApiIdle ==
    /\ contracts = [id \in ContractIds |-> NoEntry]
    /\ contractsFile = NoFile
    /\ stored = [id \in ContractIds |-> NoCode]
    /\ apiReq = NoRequest
    /\ apiResp = NoResponse
    /\ requests = 0

NoAutoGen == [called |-> FALSE, llm |-> NoCode, ret |-> None]

AutoIdle ==
    /\ autoPc = "idle"
    /\ autoFlag = FALSE
    /\ autoAnswer = None
    /\ autoRet = None
    /\ autoSteps = <<>>
    /\ autoGen = NoAutoGen

NoConfig == [exists |-> FALSE, programId |-> None, is_mock |-> FALSE]

ValIdle ==
    /\ valPc = "start"
    /\ valChecks = 0
    /\ valConfirmed = FALSE
    /\ valCalls = {}
    /\ valRet = "none"
    /\ configFile = NoConfig

NoAiRequest == [op |-> "none", program_id |-> None, contract_code |-> NoCode]
NoAiResponse == [status |-> 0, success |-> FALSE, contract_code |-> NoCode,
                 program_id |-> None]

AiIdle ==
    /\ aiReq = NoAiRequest
    /\ aiResp = NoAiResponse
    /\ aiServed = 0

MoreIdle == AutoIdle /\ ValIdle /\ AiIdle

PatchIdle ==
    /\ patchKind = "none"
    /\ patchRuns = 0
    /\ patchPrev = <<>>

\* ------------------------------------------------------------------------
\* smart_contract_build_loop
\* ------------------------------------------------------------------------

\* what the LLM may answer
Contract1 == <<UseLine, Decl(PidA), AccountAttr, PubStruct>>
Contract2 == <<UseLine, ProgramAttr, AccountAttr, PubStruct>>
LLMOutcomes ==
    { LLM_RAISE, LLM_NOCONTENT,
      LLMText(<<FenceRust>> \o Contract1 \o <<Fence>>),
      LLMText(Contract2) }

\* the public key of the keypair file after a build, None when there is none
KeypairKeys == {None, PidA}

\* `solana address -k`: a non-zero exit, or the stripped stdout of an exit 0
AddressOutcomes(kp) == {"fail", "", kp}

\* lines 399-451
Preprocess ==
    /\ pc = "start"
    /\ anchorToml' = IF anchorToml.exists
                     THEN File(EnsureAnchorIdl(anchorToml.data)) ELSE anchorToml
    /\ cargoToml' = IF cargoToml.exists
                    THEN File(PatchCargoToml(cargoToml.data)) ELSE cargoToml
    /\ attempt' = 0
    /\ program_id' = None
    /\ error_log' = <<>>
    /\ pc' = "loop"
    /\ UNCHANGED <<fs, programInfo, keypair, cwd, max_attempts, contract_code, result>>
    /\ UNCHANGED histVars
    /\ UNCHANGED <<otherVars, lastUpdate>>

\* a counter that advances by two
NextAttemptSkipping(a) == a + 2

\* line 460
NextAttempt(a) == a + 1

\* line 459, true: the loop body is entered
LoopEnter ==
    /\ pc = "loop"
    /\ attempt < max_attempts
    /\ attempt' = NextAttempt(attempt)
    /\ iterations' = iterations + 1
    /\ pc' = "generate"
    /\ UNCHANGED fileVars
    /\ UNCHANGED <<max_attempts, program_id, error_log, contract_code, result>>
    /\ UNCHANGED <<llmCalls, builds, buildOk, lastBuild, lastReq, logFrom, reqFrom,
                   lastFail, infoBefore>>
    /\ UNCHANGED <<otherVars, lastUpdate>>

\* line 459, false: lines 653-654
LoopExit ==
    /\ pc = "loop"
    /\ ~(attempt < max_attempts)
    /\ result' = Returned(FALSE, program_id)
    /\ pc' = "done"
    /\ UNCHANGED fileVars
    /\ UNCHANGED <<max_attempts, attempt, program_id, error_log, contract_code>>
    /\ UNCHANGED histVars
    /\ UNCHANGED <<otherVars, lastUpdate>>

\* lines 511-513: the step after generation
AfterGenerate(code) == IF code.ok /\ code.code # <<>> THEN "build" ELSE "loop"

\* lines 464-470 with generate_smart_contract (contract_generator.py:725-733):
\* the file is opened for writing, then f.write(contract_code) raises TypeError
\* when the LLM gave no code, and nothing in the build loop catches it
GenerateFirst ==
    /\ pc = "generate"
    /\ attempt = 1
    /\ \E resp \in LLMOutcomes :
        LET code == generate_contract_with_ai(resp) IN
        /\ llmCalls' = llmCalls + 1
        /\ IF code.ok
           THEN /\ fs' = [fs EXCEPT ![LibRsPath] = File(code.code)]
                /\ contract_code' = code
                /\ pc' = AfterGenerate(code)
           ELSE /\ fs' = [fs EXCEPT ![LibRsPath] = File(<<>>)]
                /\ contract_code' = contract_code
                /\ pc' = "raised"
    /\ UNCHANGED <<anchorToml, cargoToml, programInfo, keypair, cwd>>
    /\ UNCHANGED <<max_attempts, attempt, program_id, error_log, result>>
    /\ UNCHANGED <<iterations, builds, buildOk, lastBuild, lastReq, logFrom, reqFrom,
                   lastFail, infoBefore>>
    /\ UNCHANGED <<otherVars, lastUpdate>>

\* an update that writes the output path only
WriteUpdateNoMirror(files, output_path, code) == [files EXCEPT ![output_path] = File(code)]

\* line 173: output_path or default_output_path
FinalOutputPath(output_path) == IF output_path = NoPath THEN LibRsPath ELSE output_path

\* update_contract, lines 168-187: the files after a successful update
WriteUpdate(files, output_path, code) ==
    [files EXCEPT ![output_path] = File(code), ![LibRsPath] = File(code)]

\* lines 471-509: later attempts update the file on disk from the error log
UpdateNext ==
    /\ pc = "generate"
    /\ attempt > 1
    /\ IF fs[LibRsPath].exists /\ fs[LibRsPath].data # <<>>
       THEN \E resp \in LLMOutcomes, keygenOk \in BOOLEAN :
            LET old == fs[LibRsPath].data
                id == SelectProgramId(old, programInfo, fs[LibRsPath],
                                      IF keygenOk THEN keypair ELSE None)
                code == UpdatedContract(resp, id)
            IN
            /\ program_id' = IF extract_program_id_from_contract(old) # None
                             THEN extract_program_id_from_contract(old)
                             ELSE program_id
            /\ lastReq' = UpdateRequirements(attempt, error_log)
            /\ reqFrom' = logFrom
            /\ llmCalls' = llmCalls + 1
            /\ fs' = IF code.ok THEN WriteUpdate(fs, FinalOutputPath(LibRsPath), code.code) ELSE fs
            /\ lastUpdate' = [n |-> lastUpdate.n + 1, ret |-> code,
                              path |-> FinalOutputPath(LibRsPath), id |-> id,
                              keygen |-> IF keygenOk THEN keypair ELSE None]
            /\ contract_code' = code
            /\ pc' = AfterGenerate(code)
       ELSE /\ contract_code' = IF fs[LibRsPath].exists THEN Code(<<>>) ELSE NoCode
            /\ pc' = "loop"
            /\ UNCHANGED <<program_id, lastReq, reqFrom, llmCalls, fs, lastUpdate>>
    /\ UNCHANGED <<anchorToml, cargoToml, programInfo, keypair, cwd>>
    /\ UNCHANGED <<max_attempts, attempt, error_log, result>>
    /\ UNCHANGED <<iterations, builds, buildOk, lastBuild, logFrom, lastFail, infoBefore>>
    /\ UNCHANGED otherVars

\* lines 516-532 raise (cargo or anchor cannot be run): lines 643-651
BuildRaises ==
    /\ pc = "build"
    /\ \E kp \in KeypairKeys : keypair' = kp
    /\ error_log' = <<L_EXCEPTION>>
    /\ logFrom' = attempt
    /\ cwd' = RootDir
    /\ pc' = "loop"
    /\ UNCHANGED <<fs, anchorToml, cargoToml, programInfo>>
    /\ UNCHANGED <<max_attempts, attempt, program_id, contract_code, result>>
    /\ UNCHANGED <<iterations, llmCalls, builds, buildOk, lastBuild, lastReq, reqFrom,
                   lastFail, infoBefore>>
    /\ UNCHANGED <<otherVars, lastUpdate>>

\* a classifier that knows the IDL signature only
QuickFixesIdlOnly(log) == IF IdlMissingSig(log) THEN {"idl"} ELSE {}

\* lines 613-641: the quick fixes chosen for an error log
QuickFixes(log) ==
    (IF StackSig(log) THEN {"stack"} ELSE {})
    \cup (IF IdlMissingSig(log) THEN {"idl"} ELSE {})

\* lines 599-651: the build exits non-zero
BuildFails ==
    /\ pc = "build"
    /\ \E out \in BuildOutputs, kp \in KeypairKeys :
        LET log == FilterErrorLog(out)
            fixed == IF "stack" \in QuickFixes(log)
                     THEN StackQuickFix(fs[LibRsPath].data) ELSE fs[LibRsPath].data
            \* open(anchor_toml_path) raises when the file is missing
            tomlRaises == "idl" \in QuickFixes(log) /\ ~anchorToml.exists
        IN
        /\ keypair' = kp
        /\ builds' = builds + 1
        /\ lastBuild' = BuildOf(fs[LibRsPath].data, FALSE)
        /\ fs' = [fs EXCEPT ![LibRsPath] = File(fixed)]
        /\ anchorToml' = IF "idl" \in QuickFixes(log) /\ anchorToml.exists
                         THEN File(QuickFixAnchorIdl(anchorToml.data)) ELSE anchorToml
        /\ error_log' = IF tomlRaises THEN <<L_EXCEPTION>> ELSE log
        /\ logFrom' = attempt
        /\ lastFail' = [attempt |-> attempt, raw |-> out, log |-> log,
                        quick |-> QuickFixes(log)]
    /\ cwd' = RootDir
    /\ pc' = "loop"
    /\ UNCHANGED <<cargoToml, programInfo>>
    /\ UNCHANGED <<max_attempts, attempt, program_id, contract_code, result>>
    /\ UNCHANGED <<iterations, llmCalls, buildOk, lastReq, reqFrom, infoBefore>>
    /\ UNCHANGED <<otherVars, lastUpdate>>

\* a build loop that never writes program-info.json
StoreInfoNever(info, id) == info

\* lines 587-595: program-info.json after a successful build
StoreInfo(info, id) == IF Truthy(id) THEN Info(id) ELSE info

\* lines 535-597: the build exits 0
BuildSucceeds ==
    /\ pc = "build"
    /\ \E kp \in KeypairKeys, rebuildOk \in BOOLEAN : \E addr \in AddressOutcomes(kp) :
        LET \* lines 541-549: the ID after `solana address`
            id == IF kp # None /\ addr # "fail" THEN addr ELSE program_id
            rewrite == /\ kp # None /\ addr # "fail" /\ Truthy(id)
                       /\ fs[LibRsPath].exists
                       /\ ~HasDeclareIdOf(fs[LibRsPath].data, id)
            final == IF rewrite THEN SetDeclareId(fs[LibRsPath].data, id)
                     ELSE fs[LibRsPath].data
        IN
        /\ keypair' = kp
        /\ builds' = builds + 1
        /\ buildOk' = TRUE
        /\ fs' = IF rewrite THEN [fs EXCEPT ![LibRsPath] = File(final)] ELSE fs
        /\ lastBuild' = IF rewrite THEN BuildOf(final, rebuildOk)
                        ELSE BuildOf(fs[LibRsPath].data, TRUE)
        /\ program_id' = id
        /\ programInfo' = StoreInfo(programInfo, id)
        /\ result' = Returned(TRUE, id)
    /\ cwd' = RootDir
    /\ pc' = "done"
    /\ UNCHANGED <<anchorToml, cargoToml>>
    /\ UNCHANGED <<max_attempts, attempt, error_log, contract_code>>
    /\ UNCHANGED <<iterations, llmCalls, lastReq, logFrom, reqFrom, lastFail, infoBefore>>
    /\ UNCHANGED <<otherVars, lastUpdate>>

LoopNext ==
    \/ Preprocess
    \/ LoopEnter
    \/ LoopExit
    \/ GenerateFirst
    \/ UpdateNext
    \/ BuildRaises
    \/ BuildFails
    \/ BuildSucceeds

\* the call smart_contract_build_loop(contract_type, schema, max_attempts)
Init ==
    /\ fs \in {EmptyFs, [EmptyFs EXCEPT ![LibRsPath] = File(Contract1)]}
    /\ anchorToml \in {NoFile, File(<<FEATURES>>), File(<<FEATURES, IDL_FALSE>>)}
    /\ cargoToml \in {NoFile, File(<<TOML_OTHER, ANCHOR_WS, FEATURES>>)}
    /\ programInfo \in {NoInfo, Info(PidB)}
    /\ keypair = None
    /\ cwd = BackDir
    /\ pc = "start"
    /\ max_attempts \in 0..MaxAttempts
    /\ attempt = 0
    /\ program_id = None
    /\ error_log = <<>>
    /\ contract_code = NoCode
    /\ result = NoResult
    /\ HistInit
    /\ ProcIdle
    /\ PatchIdle
    /\ DeployIdle
    /\ ApiIdle
    /\ MoreIdle

Next == LoopNext

Spec == Init /\ [][Next]_vars

\* ------------------------------------------------------------------------
\* Properties of one call of smart_contract_build_loop
\* ------------------------------------------------------------------------

Terminated == pc \in {"done", "raised"}

\* C1: the loop runs at most max_attempts iterations, stops at the first
\* iteration whose anchor build exits 0, returns success=False after exactly
\* max_attempts iterations when no build succeeds, and with max_attempts = 0
\* makes no LLM call and no build.
C1_BudgetTermination ==
    /\ iterations <= max_attempts
    /\ (buildOk => pc = "done" /\ result.returned /\ result.success)
    /\ (Terminated /\ ~buildOk =>
            result.returned /\ ~result.success /\ iterations = max_attempts)
    /\ (max_attempts = 0 => llmCalls = 0 /\ builds = 0)

\* C2: when the loop returns success=True, the lib.rs on disk is content whose
\* last anchor build exited 0.
C2_SuccessIsBuilt ==
    (result.returned /\ result.success) =>
        (lastBuild.ran /\ lastBuild.ok /\ lastBuild.code = fs[LibRsPath].data)

\* C3 as claimed: whenever the loop returns (True, program_id), program_id is
\* not None and program-info.json holds programId = program_id.
C3_ProgramIdRecorded ==
    (result.returned /\ result.success) =>
        (result.program_id # None /\ programInfo = Info(result.program_id))

\* C3 as amended: whenever the loop returns (True, program_id) with a
\* non-empty program_id, program-info.json holds programId = program_id; when
\* it returns True with program_id None or "", program-info.json is left as it
\* was.
C3_NonEmptyIdRecorded ==
    (result.returned /\ result.success) =>
        IF Truthy(result.program_id)
        THEN programInfo = Info(result.program_id)
        ELSE programInfo = infoBefore

\* the loop returned True with an ID that `solana address` printed and that was
\* not the one recorded before
C3_Witness ==
    /\ result.returned /\ result.success
    /\ result.program_id = PidA
    /\ infoBefore # Info(PidA)
    /\ programInfo = Info(PidA)

\* C4: every update request of an attempt k >= 2 carries the non-empty error
\* text of the build that ran in attempt k-1, the attempt its prompt names.
C4_ErrorsFedBack ==
    lastReq # NoReq => (lastReq.log # <<>> /\ reqFrom = lastReq.named)

\* the failure signatures present in a build's raw output
RawSigs(out) ==
    (IF StackSig(out.stderr \o out.stdout) THEN {"stack"} ELSE {})
    \cup (IF IdlSig(out.stderr \o out.stdout) THEN {"idl"} ELSE {})
    \cup (IF BorrowSig(out.stderr \o out.stdout) THEN {"borrow"} ELSE {})
    \cup (IF QuestionSig(out.stderr \o out.stdout) THEN {"question"} ELSE {})

\* the signatures for which a quick fix or a prompt instruction was selected
SelectedFor ==
    lastFail.quick
    \cup (IF lastReq.stack THEN {"stack"} ELSE {})
    \cup (IF lastReq.idl THEN {"idl"} ELSE {})

\* the update request that follows the most recent failed build has been made
FailureAnswered == lastFail.attempt > 0 /\ lastReq # NoReq /\ reqFrom = lastFail.attempt

C21_StackFixAlways ==
    (lastFail.attempt > 0 /\ StackSig(lastFail.raw.stderr \o lastFail.raw.stdout))
        => "stack" \in lastFail.quick

\* C13: smart_contract_build_loop never lets an exception reach its caller: every
\* call that ends, ends by returning a (success, program_id) tuple.
C13_NeverRaises == Terminated => (pc = "done" /\ result.returned)

\* C7: 0 <= attempt <= max_attempts in every state; every loop iteration, also
\* one that skips the build, advances attempt by exactly one; nothing else
\* changes attempt or max_attempts.
C7_BudgetCounter ==
    /\ [](0 <= attempt /\ attempt <= max_attempts /\ iterations = attempt)
    /\ [][ /\ max_attempts' = max_attempts
           /\ IF pc = "loop" /\ pc' = "generate"
              THEN attempt' = attempt + 1
              ELSE attempt' = attempt ]_vars

\* an iteration that skipped the build was counted: the loop is in its third
\* iteration after a single build
C7_Witness == pc = "generate" /\ attempt = 3 /\ builds = 1


\* ------------------------------------------------------------------------
\* One process calling the operations one after another (the API server of
\* back/main.py, the command line of script/automate_contract.py)
\* ------------------------------------------------------------------------

\* operations one process calls
MaxOps == 2

\* the max_attempts the process passes to the build loop
ProcAttempts == {0, 1, 2}

ProcInit ==
    /\ fs = EmptyFs
    /\ anchorToml = NoFile
    /\ cargoToml = NoFile
    /\ programInfo = NoInfo
    /\ keypair = None
    /\ cwd = BackDir
    /\ LoopIdle
    /\ HistInit
    /\ ops = 0
    /\ lastGen = NoGen
    /\ lastUpdate = NoUpdate
    /\ outsideDir \in BOOLEAN
    /\ PatchIdle
    /\ DeployIdle
    /\ ApiIdle
    /\ MoreIdle

\* back/main.py:199, automate_contract.py:156: the build loop is called
CallBuildLoop ==
    /\ pc = "idle"
    /\ ops < MaxOps
    /\ ops' = ops + 1
    /\ pc' = "start"
    /\ max_attempts' \in ProcAttempts
    /\ infoBefore' = programInfo
    /\ UNCHANGED fileVars
    /\ UNCHANGED <<attempt, program_id, error_log, contract_code, result>>
    /\ UNCHANGED <<iterations, llmCalls, builds, buildOk, lastBuild, lastReq, logFrom,
                   reqFrom, lastFail>>
    /\ UNCHANGED <<lastGen, lastUpdate, outsideDir>>
    /\ UNCHANGED <<patchVars, deployVars, apiVars, moreVars>>

\* the build loop returns, or its exception reaches the caller's handler
ReturnBuildLoop ==
    /\ pc \in {"done", "raised"}
    /\ ops > 0
    /\ pc' = "idle"
    /\ max_attempts' = 0
    /\ attempt' = 0
    /\ program_id' = None
    /\ error_log' = <<>>
    /\ contract_code' = NoCode
    /\ result' = NoResult
    /\ iterations' = 0
    /\ llmCalls' = 0
    /\ builds' = 0
    /\ buildOk' = FALSE
    /\ lastBuild' = NoBuild
    /\ lastReq' = NoReq
    /\ logFrom' = 0
    /\ reqFrom' = 0
    /\ lastFail' = NoFail
    /\ infoBefore' = programInfo
    /\ UNCHANGED fileVars
    /\ UNCHANGED <<ops, lastGen, lastUpdate, outsideDir>>
    /\ UNCHANGED <<patchVars, deployVars, apiVars, moreVars>>

\* contract_generator.py:584: output_path or CONTRACT_OUTPUT_PATH, which
\* open() resolves against the working directory
DefaultOutputPath(dir) == Resolve(dir, CONTRACT_OUTPUT_PATH)

\* open(path, "w") finds the directory of the path
CanOpen(path) == path # OutsidePath \/ outsideDir

\* generate_smart_contract(contract_type, schema) without output_path
\* (back/main.py:51, automate_contract.py:99 without --output)
GenerateNoPath ==
    /\ pc = "idle"
    /\ ops < MaxOps
    /\ ops' = ops + 1
    /\ \E resp \in LLMOutcomes :
        LET path == DefaultOutputPath(cwd)
            code == generate_contract_with_ai(resp)
        IN
        /\ fs' = IF ~CanOpen(path) THEN fs
                 ELSE IF code.ok THEN [fs EXCEPT ![path] = File(code.code)]
                 ELSE [fs EXCEPT ![path] = File(<<>>)]
        /\ lastGen' = [n |-> lastGen.n + 1,
                       ret |-> IF CanOpen(path) THEN code ELSE NoCode,
                       path |-> path]
    /\ UNCHANGED <<anchorToml, cargoToml, programInfo, keypair, cwd>>
    /\ UNCHANGED loopVars
    /\ UNCHANGED histVars
    /\ UNCHANGED <<lastUpdate, outsideDir>>
    /\ UNCHANGED <<patchVars, deployVars, apiVars, moreVars>>

\* the contract codes a caller passes to update_contract
GivenContracts == {Contract1, Contract2}

\* update_contract(contract_type, contract_code, requirements, output_path)
\* called from the command line (automate_contract.py:117)
UpdateCLI ==
    /\ pc = "idle"
    /\ ops < MaxOps
    /\ ops' = ops + 1
    /\ \E resp \in LLMOutcomes, keygenOk \in BOOLEAN, old \in GivenContracts,
          output_path \in {NoPath, LibRsPath, CustomPath} :
        LET id == SelectProgramId(old, programInfo, fs[LibRsPath],
                                  IF keygenOk THEN keypair ELSE None)
            code == UpdatedContract(resp, id)
        IN
        /\ fs' = IF code.ok THEN WriteUpdate(fs, FinalOutputPath(output_path), code.code)
                 ELSE fs
        /\ lastUpdate' = [n |-> lastUpdate.n + 1, ret |-> code,
                          path |-> FinalOutputPath(output_path), id |-> id,
                          keygen |-> IF keygenOk THEN keypair ELSE None]
    /\ UNCHANGED <<anchorToml, cargoToml, programInfo, keypair, cwd>>
    /\ UNCHANGED loopVars
    /\ UNCHANGED histVars
    /\ UNCHANGED <<lastGen, outsideDir>>
    /\ UNCHANGED <<patchVars, deployVars, apiVars, moreVars>>

\* the working directory after try: os.chdir(deploy_dir) ... finally:
\* os.chdir(root_dir)
DirAfterOperation(before) == RootDir

OperationFrame ==
    /\ pc = "idle"
    /\ ops < MaxOps
    /\ ops' = ops + 1
    /\ cwd' = DirAfterOperation(cwd)
    /\ UNCHANGED <<fs, anchorToml, cargoToml, programInfo, keypair>>
    /\ UNCHANGED loopVars
    /\ UNCHANGED histVars
    /\ UNCHANGED <<lastGen, lastUpdate, outsideDir>>
    /\ UNCHANGED <<patchVars, deployVars, apiVars, moreVars>>

\* ContractAutomation.validate_contract
AutoValidate == OperationFrame

\* ContractAutomation.build_contract
AutoBuild == OperationFrame

\* ContractAutomation.deploy_contract
AutoDeploy == OperationFrame

\* deploy_contract_from_loop
DeployFromLoop == OperationFrame

ProcNext ==
    \/ CallBuildLoop
    \/ LoopNext
    \/ ReturnBuildLoop
    \/ GenerateNoPath
    \/ UpdateCLI
    \/ AutoValidate
    \/ AutoBuild
    \/ AutoDeploy
    \/ DeployFromLoop

ProcSpec == ProcInit /\ [][ProcNext]_vars

\* C8: generate_smart_contract called without output_path always writes
\* <root>/deploy/programs/deploy/src/lib.rs, whatever ran earlier in the process.
C8_FixedLibRs == lastGen.n > 0 => lastGen.path = LibRsPath

\* C9: whenever update_contract returns a code string c, the standard lib.rs
\* holds exactly c, and so does the output_path file when one was given.
C9_UpdateMirrored ==
    [][ (lastUpdate'.n # lastUpdate.n /\ lastUpdate'.ret.ok) =>
            /\ fs'[LibRsPath] = File(lastUpdate'.ret.code)
            /\ fs'[lastUpdate'.path] = File(lastUpdate'.ret.code) ]_vars

\* update_contract returned code that it wrote to a custom output path while the
\* standard lib.rs held something else before
C9_Witness ==
    /\ lastUpdate.n > 0
    /\ lastUpdate.ret.ok
    /\ lastUpdate.path = CustomPath
    /\ fs[CustomPath] = File(lastUpdate.ret.code)
    /\ fs[LibRsPath] = File(lastUpdate.ret.code)

\* ------------------------------------------------------------------------
\* The file rewrites of the build loop, applied repeatedly to one file
\* ------------------------------------------------------------------------

TomlLines == {FEATURES, IDL_TRUE, IDL_FALSE, IDL_CARGO, ANCHOR_WS, ANCHOR_INIT,
              ANCHOR_VER, PROFILE_HDR, TOML_OTHER}
StructLines == {AccountAttr, DeriveDefault, PubStruct, ProgramAttr}
DeclLines == {UseLine, Decl(PidA), Decl(PidB), Decl(BadId), DeclComment, ProgramAttr}

PatchInit ==
    /\ patchRuns = 0
    /\ patchPrev = <<>>
    /\ programInfo = NoInfo
    /\ keypair = None
    /\ cwd = BackDir
    /\ LoopIdle
    /\ HistInit
    /\ ProcIdle
    /\ DeployIdle
    /\ ApiIdle
    /\ MoreIdle
    /\ \/ /\ patchKind \in {"anchor_pre", "anchor_fix"}
          /\ anchorToml \in {File(t) : t \in SeqsUpTo(TomlLines, MaxLen)}
          /\ cargoToml = NoFile
          /\ fs = EmptyFs
       \/ /\ patchKind = "cargo"
          /\ cargoToml \in {File(t) : t \in SeqsUpTo(TomlLines, MaxLen)}
          /\ anchorToml = NoFile
          /\ fs = EmptyFs
       \/ /\ patchKind = "stack"
          /\ fs \in {[EmptyFs EXCEPT ![LibRsPath] = File(c)] : c \in SeqsUpTo(StructLines, MaxLen)}
          /\ anchorToml = NoFile
          /\ cargoToml = NoFile
       \/ /\ patchKind \in {"declare_A", "declare_B"}
          /\ fs \in {[EmptyFs EXCEPT ![LibRsPath] = File(c)] : c \in SeqsUpTo(DeclLines, MaxLen)}
          /\ anchorToml = NoFile
          /\ cargoToml = NoFile

PatchedFile ==
    CASE patchKind \in {"anchor_pre", "anchor_fix"} -> anchorToml.data
      [] patchKind = "cargo" -> cargoToml.data
      [] OTHER -> fs[LibRsPath].data

PatchFrame ==
    /\ UNCHANGED <<programInfo, keypair, cwd, patchKind, lastUpdate>>
    /\ UNCHANGED procVars
    /\ UNCHANGED deployVars
    /\ UNCHANGED apiVars
    /\ UNCHANGED moreVars
    /\ UNCHANGED loopVars
    /\ UNCHANGED histVars

ApplyAnchorPre ==
    /\ patchKind = "anchor_pre"
    /\ patchRuns < 2
    /\ anchorToml' = File(EnsureAnchorIdl(anchorToml.data))
    /\ patchPrev' = anchorToml.data
    /\ patchRuns' = patchRuns + 1
    /\ UNCHANGED <<fs, cargoToml>>
    /\ PatchFrame

ApplyAnchorFix ==
    /\ patchKind = "anchor_fix"
    /\ patchRuns < 2
    /\ anchorToml' = File(QuickFixAnchorIdl(anchorToml.data))
    /\ patchPrev' = anchorToml.data
    /\ patchRuns' = patchRuns + 1
    /\ UNCHANGED <<fs, cargoToml>>
    /\ PatchFrame

ApplyCargo ==
    /\ patchKind = "cargo"
    /\ patchRuns < 2
    /\ cargoToml' = File(PatchCargoToml(cargoToml.data))
    /\ patchPrev' = cargoToml.data
    /\ patchRuns' = patchRuns + 1
    /\ UNCHANGED <<fs, anchorToml>>
    /\ PatchFrame

ApplyStack ==
    /\ patchKind = "stack"
    /\ patchRuns < 2
    /\ fs' = [fs EXCEPT ![LibRsPath] = File(StackQuickFix(fs[LibRsPath].data))]
    /\ patchPrev' = fs[LibRsPath].data
    /\ patchRuns' = patchRuns + 1
    /\ UNCHANGED <<anchorToml, cargoToml>>
    /\ PatchFrame

ApplyDeclare ==
    /\ patchKind \in {"declare_A", "declare_B"}
    /\ patchRuns < 2
    /\ fs' = [fs EXCEPT ![LibRsPath] =
                File(SetDeclareId(fs[LibRsPath].data,
                                  IF patchKind = "declare_A" THEN PidA ELSE PidB))]
    /\ patchPrev' = fs[LibRsPath].data
    /\ patchRuns' = patchRuns + 1
    /\ UNCHANGED <<anchorToml, cargoToml>>
    /\ PatchFrame

PatchNext == ApplyAnchorPre \/ ApplyAnchorFix \/ ApplyCargo \/ ApplyStack \/ ApplyDeclare

PatchSpec == PatchInit /\ [][PatchNext]_vars

\* C6: every file rewrite of the build loop is idempotent: applied a second
\* time, to its own output, it leaves the file content unchanged.
C6_RewritesIdempotent == patchRuns = 2 => PatchedFile = patchPrev

\* the Cargo.toml rewrite, having made all three edits, has been applied twice
C6_Witness ==
    /\ patchRuns = 2
    /\ patchKind = "cargo"
    /\ Len(PatchedFile) > Len(ProfileBlock)
    /\ \E i \in 1..Len(PatchedFile) : PatchedFile[i] = IDL_CARGO
    /\ \E i \in 1..Len(PatchedFile) : PatchedFile[i] = ANCHOR_INIT

\* ------------------------------------------------------------------------
\* One deployment: a deploy runner and the deployment script it starts
\* ------------------------------------------------------------------------

\* writes of the deployment script in one run
MaxWrites == 3

\* What scripts/deploy.sh writes: a text, and whether a newline ends it.
O_INFO == [text |-> "Deploying program...", nl |-> TRUE]
P_CONTINUE == [text |-> "Continue? (y/n)", nl |-> TRUE]
P_AIRDROP == [text |-> "Would you like to airdrop SOL? (y/n)", nl |-> TRUE]
\* a prompt that leaves the cursor on its line
P_INLINE == [text |-> "Continue? (y/n) ", nl |-> FALSE]
P_OTHER == [text |-> "Proceed with deployment? [y/N]", nl |-> TRUE]

ScriptPrompts == {P_CONTINUE, P_AIRDROP, P_INLINE, P_OTHER}

Runners == {"deploy_contract", "deploy_contract_from_loop"}

\* automation.py:209: "Continue?" in line or "Would you like to airdrop" in line
AsksToContinue(text) == text \in {P_CONTINUE.text, P_INLINE.text, P_AIRDROP.text}

RECURSIVE FirstNewline(_)
FirstNewline(out) ==
    IF out = <<>> THEN 0
    ELSE IF Head(out).nl THEN 1
    ELSE LET r == FirstNewline(Tail(out)) IN IF r = 0 THEN 0 ELSE r + 1

\* process.stdout.readline(): how many writes the returned line takes; 0 when
\* nothing can be returned yet. Without a newline it returns only at end of file.
ReadlineLen(out, eof) ==
    IF FirstNewline(out) > 0 THEN FirstNewline(out)
    ELSE IF eof THEN Len(out)
    ELSE 0

DeployInit ==
    /\ fs = EmptyFs
    /\ anchorToml = NoFile
    /\ cargoToml = NoFile
    /\ programInfo = NoInfo
    /\ keypair = None
    /\ cwd \in {BackDir, RootDir}
    /\ LoopIdle
    /\ HistInit
    /\ ProcIdle
    /\ PatchIdle
    /\ DeployIdle
    /\ ApiIdle
    /\ MoreIdle

DeployFrame ==
    /\ UNCHANGED <<fs, anchorToml, cargoToml, programInfo, keypair>>
    /\ UNCHANGED loopVars
    /\ UNCHANGED histVars
    /\ UNCHANGED <<procVars, lastUpdate>>
    /\ UNCHANGED patchVars
    /\ UNCHANGED apiVars
    /\ UNCHANGED moreVars

\* the runner is called: chdir(deploy_dir), chmod, start ./scripts/deploy.sh
RunnerStart ==
    /\ dPc = "idle"
    /\ \E r \in Runners, scriptExists \in BOOLEAN :
        /\ dRunner' = r
        /\ IF scriptExists
           THEN /\ dPc' = "run"
                /\ script' = "running"
                /\ cwd' = DeployDir
                /\ UNCHANGED dRet
           ELSE /\ dPc' = "returned"
                /\ dRet' = "False"
                /\ cwd' = RootDir
                /\ UNCHANGED script
    /\ UNCHANGED <<exitCode, stdout, stdin, emitted, asked, answered>>
    /\ DeployFrame

\* for line in iter(process.stdout.readline, ''): ... write "y\n" on a match
PopenReadLine ==
    /\ dRunner = "deploy_contract"
    /\ dPc = "run"
    /\ LET n == ReadlineLen(stdout, script = "exited")
           line == SubSeq(stdout, 1, n)
       IN
       /\ n > 0
       /\ stdout' = SubSeq(stdout, n + 1, Len(stdout))
       /\ IF \E i \in 1..n : AsksToContinue(line[i].text)
          THEN IF script = "exited"
               THEN \* the write to a closed pipe raises; except: return False
                    /\ dPc' = "returned"
                    /\ dRet' = "False"
                    /\ cwd' = RootDir
                    /\ UNCHANGED <<stdin, answered>>
               ELSE /\ stdin' = stdin + 1
                    /\ answered' = answered + 1
                    /\ UNCHANGED <<dPc, dRet, cwd>>
          ELSE UNCHANGED <<stdin, answered, dPc, dRet, cwd>>
    /\ UNCHANGED <<dRunner, script, exitCode, emitted, asked>>
    /\ DeployFrame

\* readline returns '' at end of file; process.wait(); return exit_code == 0
PopenReturns ==
    /\ dRunner = "deploy_contract"
    /\ dPc = "run"
    /\ script = "exited"
    /\ stdout = <<>>
    /\ dPc' = "returned"
    /\ dRet' = IF exitCode = 0 THEN "True" ELSE "False"
    /\ cwd' = RootDir
    /\ UNCHANGED <<dRunner, script, exitCode, stdout, stdin, emitted, asked, answered>>
    /\ DeployFrame

\* subprocess.run(cmd, capture_output=True, text=True) returns when the script
\* has exited; it writes nothing to the script
RunReturns ==
    /\ dRunner = "deploy_contract_from_loop"
    /\ dPc = "run"
    /\ script = "exited"
    /\ stdout' = <<>>
    /\ dPc' = "returned"
    /\ dRet' = IF exitCode = 0 THEN "True" ELSE "False"
    /\ cwd' = RootDir
    /\ UNCHANGED <<dRunner, script, exitCode, stdin, emitted, asked, answered>>
    /\ DeployFrame

\* subprocess.run without stdin: the script reads the stdin of the calling
\* process, where a line or the end of the file may arrive from outside
InheritedStdin ==
    /\ dRunner = "deploy_contract_from_loop"
    /\ script = "waiting"
    /\ script' = "running"
    /\ UNCHANGED <<dRunner, dPc, dRet, exitCode, stdout, stdin, emitted, asked, answered, cwd>>
    /\ DeployFrame

\* the script writes a line of progress
ScriptWrite ==
    /\ script = "running"
    /\ emitted < MaxWrites
    /\ stdout' = Append(stdout, O_INFO)
    /\ emitted' = emitted + 1
    /\ UNCHANGED <<dRunner, dPc, dRet, script, exitCode, stdin, asked, answered, cwd>>
    /\ DeployFrame

\* the script emits a confirmation prompt and waits for a line of input
ScriptPrompt ==
    /\ script = "running"
    /\ emitted < MaxWrites
    /\ \E p \in ScriptPrompts : stdout' = Append(stdout, p)
    /\ emitted' = emitted + 1
    /\ asked' = asked + 1
    /\ script' = "waiting"
    /\ UNCHANGED <<dRunner, dPc, dRet, exitCode, stdin, answered, cwd>>
    /\ DeployFrame

\* the script reads the line written to its stdin
ScriptRead ==
    /\ script = "waiting"
    /\ stdin > 0
    /\ stdin' = stdin - 1
    /\ script' = "running"
    /\ UNCHANGED <<dRunner, dPc, dRet, exitCode, stdout, emitted, asked, answered, cwd>>
    /\ DeployFrame

ScriptExit ==
    /\ script = "running"
    /\ script' = "exited"
    /\ exitCode' \in {0, 1}
    /\ UNCHANGED <<dRunner, dPc, dRet, stdout, stdin, emitted, asked, answered, cwd>>
    /\ DeployFrame

DeployNext ==
    \/ RunnerStart
    \/ PopenReadLine
    \/ PopenReturns
    \/ RunReturns
    \/ InheritedStdin
    \/ ScriptWrite
    \/ ScriptPrompt
    \/ ScriptRead
    \/ ScriptExit

\* The runner and the script are processes that keep running; nothing obliges
\* anyone to type on the inherited stdin.
DeploySpec ==
    /\ DeployInit
    /\ [][DeployNext]_vars
    /\ WF_vars(RunnerStart)
    /\ WF_vars(PopenReadLine)
    /\ WF_vars(PopenReturns)
    /\ WF_vars(RunReturns)
    /\ WF_vars(ScriptRead)
    /\ WF_vars(ScriptExit)

\* C10: in both deploy runners, whenever the script has emitted a confirmation
\* prompt and waits for input, the runner eventually has written a `y` for every
\* prompt emitted, and once the script has exited the runner eventually returns.
C10_PromptsAnswered ==
    /\ (script = "waiting") ~> (answered >= asked)
    /\ (script = "exited") ~> (dPc = "returned")

\* ------------------------------------------------------------------------
\* The API server of back/main.py: one process serving requests in turn
\* ------------------------------------------------------------------------

Entry(code, pid) ==
    [exists |-> TRUE, contract |-> code, deployed |-> FALSE, program_id |-> pid,
     updated |-> FALSE]

\* str(uuid4()): a key the dict does not hold yet
NewContractId(cs) == Cardinality({id \in ContractIds : cs[id].exists}) + 1

\* a store that puts the entry under every key
StoreEntryEverywhere(cs, id, entry) == [i \in ContractIds |-> entry]

\* contracts[contract_id] = {...}
StoreEntry(cs, id, entry) == [cs EXCEPT ![id] = entry]

\* contracts[contract_id]["contract"] = updated_contract; ["updated"] = True
SetContract(cs, id, code) == [cs EXCEPT ![id].contract = code, ![id].updated = TRUE]

\* contracts[contract_id]["deployed"] = True; ["program_id"] = mock_program_id
SetDeployed(cs, id, pid) == [cs EXCEPT ![id].deployed = TRUE, ![id].program_id = pid]

\* str(uuid.uuid4())[:32].replace('-', '')
MockProgramId == "mock"

\* integrate_keys_into_contract: the stripped LLM text without the code-fence
\* markers ("" when nothing is left), None when the call raises or the
\* response has no content
integrate_keys_into_contract(code, resp) ==
    IF code = <<>> THEN NoCode
    ELSE IF resp.kind # "text" THEN NoCode
    ELSE Code(SelectSeq(resp.text, NotFence))

\* what the LLM may answer to the improvement prompt
ImproveOutcomes ==
    { LLM_RAISE, LLM_NOCONTENT, LLMText(<<FenceRust, Fence>>),
      LLMText(<<FenceRust>> \o Contract2 \o <<Fence>>), LLMText(Contract1) }

Response(status, code) == [status |-> status, contract |-> code]

ApiFrame ==
    /\ UNCHANGED <<anchorToml, cargoToml, programInfo, keypair, cwd>>
    /\ UNCHANGED loopVars
    /\ UNCHANGED histVars
    /\ UNCHANGED <<procVars, lastUpdate>>
    /\ UNCHANGED <<patchVars, deployVars, moreVars>>
    /\ UNCHANGED contractsFile

ApiInit ==
    /\ fs = EmptyFs
    /\ anchorToml = NoFile
    /\ cargoToml = NoFile
    /\ programInfo = NoInfo
    /\ keypair = None
    /\ cwd = BackDir
    /\ LoopIdle
    /\ HistInit
    /\ ProcIdle
    /\ PatchIdle
    /\ DeployIdle
    /\ ApiIdle
    /\ MoreIdle

\* POST /api/generate-contract
ApiGenerate ==
    /\ pc = "idle"
    /\ requests < MaxRequests
    /\ requests' = requests + 1
    /\ \E resp \in LLMOutcomes :
        LET id == NewContractId(contracts)
            path == DefaultOutputPath(cwd)
            code == generate_contract_with_ai(resp)
            \* open() or f.write(None) raises: except, status 500
            ok == CanOpen(path) /\ code.ok
        IN
        /\ fs' = IF ~CanOpen(path) THEN fs
                 ELSE IF code.ok THEN [fs EXCEPT ![path] = File(code.code)]
                 ELSE [fs EXCEPT ![path] = File(<<>>)]
        /\ contracts' = IF ok THEN StoreEntry(contracts, id, Entry(code.code, None))
                        ELSE contracts
        /\ stored' = IF ok THEN [stored EXCEPT ![id] = code] ELSE stored
        /\ apiReq' = [op |-> "generate", id |-> id]
        /\ apiResp' = Response(IF ok THEN 200 ELSE 500, NoCode)
    /\ ApiFrame

\* POST /api/update-contract/{contract_id}
ApiUpdate ==
    /\ pc = "idle"
    /\ requests < MaxRequests
    /\ requests' = requests + 1
    /\ \E id \in ContractIds, resp \in ImproveOutcomes :
        LET updated_contract == integrate_keys_into_contract(contracts[id].contract, resp)
            ok == updated_contract.ok /\ updated_contract.code # <<>>
        IN
        /\ apiReq' = [op |-> "update", id |-> id]
        /\ IF ~contracts[id].exists
           THEN /\ apiResp' = Response(404, NoCode)
                /\ UNCHANGED <<fs, contracts, stored>>
           ELSE /\ fs' = IF ok
                         THEN [fs EXCEPT ![UpdatedContractPath(id)] = File(updated_contract.code)]
                         ELSE fs
                /\ contracts' = IF ok THEN SetContract(contracts, id, updated_contract.code)
                                ELSE contracts
                /\ stored' = IF ok THEN [stored EXCEPT ![id] = updated_contract] ELSE stored
                /\ apiResp' = Response(IF ok THEN 200 ELSE 500, NoCode)
    /\ ApiFrame

\* POST /api/deploy-contract/{contract_id}
ApiDeploy ==
    /\ pc = "idle"
    /\ requests < MaxRequests
    /\ requests' = requests + 1
    /\ \E id \in ContractIds :
        /\ apiReq' = [op |-> "deploy", id |-> id]
        /\ IF ~contracts[id].exists
           THEN /\ apiResp' = Response(404, NoCode)
                /\ UNCHANGED contracts
           ELSE /\ contracts' = SetDeployed(contracts, id, MockProgramId)
                /\ apiResp' = Response(200, NoCode)
    /\ UNCHANGED <<fs, stored>>
    /\ ApiFrame

\* what GET view-contract and GET download-contract answer
ViewResponse(cs, id) ==
    IF ~cs[id].exists THEN Response(404, NoCode) ELSE Response(200, Code(cs[id].contract))

\* GET /api/view-contract/{contract_id}
ApiView ==
    /\ pc = "idle"
    /\ \E id \in ContractIds :
        /\ apiReq' = [op |-> "view", id |-> id]
        /\ apiResp' = ViewResponse(contracts, id)
    /\ UNCHANGED <<fs, contracts, stored, requests>>
    /\ ApiFrame

\* GET /api/download-contract/{contract_id}
ApiDownload ==
    /\ pc = "idle"
    /\ \E id \in ContractIds :
        /\ apiReq' = [op |-> "download", id |-> id]
        /\ apiResp' = ViewResponse(contracts, id)
    /\ UNCHANGED <<fs, contracts, stored, requests>>
    /\ ApiFrame

\* a build request is served only among the first BuildWithin mutating requests
BuildWithin == 1

\* POST /api/build-contract: the build loop is called (line 199)
ApiBuildCall ==
    /\ pc = "idle"
    /\ requests < BuildWithin
    /\ requests' = requests + 1
    /\ pc' = "start"
    /\ max_attempts' \in ProcAttempts
    /\ infoBefore' = programInfo
    /\ apiReq' = [op |-> "build", id |-> NewContractId(contracts)]
    /\ apiResp' = NoResponse
    /\ UNCHANGED fileVars
    /\ UNCHANGED <<attempt, program_id, error_log, contract_code, result>>
    /\ UNCHANGED <<iterations, llmCalls, builds, buildOk, lastBuild, lastReq, logFrom,
                   reqFrom, lastFail>>
    /\ UNCHANGED <<procVars, lastUpdate>>
    /\ UNCHANGED <<patchVars, deployVars, moreVars>>
    /\ UNCHANGED <<contracts, contractsFile, stored>>

\* POST /api/build-contract, lines 205-247: after the build loop
ApiBuildReturn ==
    /\ pc \in {"done", "raised"}
    /\ apiReq.op = "build"
    /\ LET ok == pc = "done" /\ result.success /\ fs[LibRsPath].exists
           code == fs[LibRsPath].data
       IN
       /\ contracts' = IF ok THEN StoreEntry(contracts, apiReq.id, Entry(code, result.program_id))
                       ELSE contracts
       /\ stored' = IF ok THEN [stored EXCEPT ![apiReq.id] = Code(code)] ELSE stored
       /\ apiResp' = Response(IF ok THEN 200 ELSE 500, NoCode)
    /\ pc' = "idle"
    /\ max_attempts' = 0
    /\ attempt' = 0
    /\ program_id' = None
    /\ error_log' = <<>>
    /\ contract_code' = NoCode
    /\ result' = NoResult
    /\ iterations' = 0
    /\ llmCalls' = 0
    /\ builds' = 0
    /\ buildOk' = FALSE
    /\ lastBuild' = NoBuild
    /\ lastReq' = NoReq
    /\ logFrom' = 0
    /\ reqFrom' = 0
    /\ lastFail' = NoFail
    /\ infoBefore' = programInfo
    /\ UNCHANGED fileVars
    /\ UNCHANGED <<procVars, lastUpdate>>
    /\ UNCHANGED <<patchVars, deployVars, moreVars>>
    /\ UNCHANGED <<contractsFile, apiReq, requests>>

\* the server process is started again: line 28 runs again
ApiRestart ==
    /\ pc = "idle"
    /\ apiReq # NoRequest
    /\ contracts' = [id \in ContractIds |-> NoEntry]
    /\ stored' = [id \in ContractIds |-> NoCode]
    /\ apiReq' = NoRequest
    /\ apiResp' = NoResponse
    /\ cwd' = BackDir
    /\ UNCHANGED <<fs, anchorToml, cargoToml, programInfo, keypair>>
    /\ UNCHANGED loopVars
    /\ UNCHANGED histVars
    /\ UNCHANGED <<procVars, lastUpdate>>
    /\ UNCHANGED <<patchVars, deployVars, moreVars>>
    /\ UNCHANGED <<contractsFile, requests>>

ApiNext ==
    \/ ApiGenerate
    \/ ApiUpdate
    \/ ApiDeploy
    \/ ApiView
    \/ ApiDownload
    \/ ApiBuildCall
    \/ LoopNext
    \/ ApiBuildReturn
    \/ ApiRestart

ApiSpec == ApiInit /\ [][ApiNext]_vars

\* C11: GET view-contract and GET download-contract answer 404 for an id under
\* which no request has stored code, and otherwise exactly the code most
\* recently stored for the id by a successful generate, build or update request;
\* no request removes an entry or changes the entry of another id.
C11_StoreFaithful ==
    /\ [](apiReq.op \in {"view", "download"} =>
            apiResp = IF stored[apiReq.id].ok THEN Response(200, stored[apiReq.id])
                      ELSE Response(404, NoCode))
    /\ [][apiReq' # NoRequest =>
            \A id \in ContractIds :
                /\ contracts[id].exists => contracts'[id].exists
                /\ id # apiReq'.id => contracts'[id] = contracts[id]]_vars

\* a view returns the updated code of an entry
C11_Witness ==
    /\ apiReq.op = "view"
    /\ apiResp.status = 200
    /\ contracts[apiReq.id].updated
    /\ apiResp.contract = stored[apiReq.id]

\* C12: after every mutating request (generate, update, build, deploy) the
\* persisted JSON file holds the same contract entries as the in-memory dict.
C12_PersistedMatches ==
    apiReq.op \in {"generate", "update", "build", "deploy"} /\ pc = "idle" =>
        /\ contractsFile.exists
        /\ contractsFile.data = contracts

\* ------------------------------------------------------------------------
\* One run of the automation pipeline: `automate <type> [--deploy]`, or the
\* command line of ai/automation.py
\* ------------------------------------------------------------------------

\* what the user may type at the deploy question; "EOF": stdin is closed
Answers == {"y", "Y", "n", "", "EOF"}

\* deploy_choice.lower() == 'y'
SaysYes(answer) == answer \in {"y", "Y"}

Step(name, ok) == [step |-> name, ok |-> ok]

StepsRun == {autoSteps[i].step : i \in 1..Len(autoSteps)}

AutoInit ==
    /\ fs \in {EmptyFs, [EmptyFs EXCEPT ![LibRsPath] = File(Contract2)]}
    /\ anchorToml = NoFile
    /\ cargoToml = NoFile
    /\ programInfo = NoInfo
    /\ keypair = None
    /\ cwd \in {BackDir, RootDir}
    /\ LoopIdle
    /\ HistInit
    /\ ProcIdle
    /\ PatchIdle
    /\ DeployIdle
    /\ ApiIdle
    /\ MoreIdle

AutoFrame ==
    /\ UNCHANGED <<anchorToml, cargoToml, programInfo, keypair>>
    /\ UNCHANGED loopVars
    /\ UNCHANGED histVars
    /\ UNCHANGED <<procVars, lastUpdate>>
    /\ UNCHANGED <<patchVars, deployVars, apiVars, valVars, aiVars>>

\* parser.parse_args(); automation = ContractAutomation()
AutoStart ==
    /\ autoPc = "idle"
    /\ autoFlag' \in BOOLEAN
    /\ autoPc' = "sync"
    /\ UNCHANGED <<autoAnswer, autoRet, autoSteps, autoGen, fs, cwd>>
    /\ AutoFrame

\* 1. sync_templates: False when back/templates is missing; the run goes on
AutoSync ==
    /\ autoPc = "sync"
    /\ \E ok \in BOOLEAN : autoSteps' = Append(autoSteps, Step("sync", ok))
    /\ autoPc' = "cargo"
    /\ UNCHANGED <<autoFlag, autoAnswer, autoRet, autoGen, fs, cwd>>
    /\ AutoFrame

\* 2. update_cargo_toml: always True
AutoCargo ==
    /\ autoPc = "cargo"
    /\ autoSteps' = Append(autoSteps, Step("cargo", TRUE))
    /\ autoPc' = "generate"
    /\ UNCHANGED <<autoFlag, autoAnswer, autoRet, autoGen, fs, cwd>>
    /\ AutoFrame

\* generate_contract's result for the code generate_smart_contract produced:
\* "raised" when f.write(None) raises, else True for a non-empty string
generate_contract(code) ==
    IF ~code.ok THEN "raised"
    ELSE IF code.code # <<>> THEN "True" ELSE "False"

\* 3. ContractAutomation.generate_contract, with output_path = lib.rs
AutoGenerate ==
    /\ autoPc = "generate"
    /\ \E resp \in LLMOutcomes :
        LET code == generate_contract_with_ai(resp)
            ret == generate_contract(code)
        IN
        /\ fs' = [fs EXCEPT ![LibRsPath] = File(code.code)]
        /\ autoGen' = [called |-> TRUE, llm |-> extract_code_from_ai_response(resp),
                       ret |-> ret]
        /\ autoSteps' = Append(autoSteps, Step("generate", ret = "True"))
        /\ autoPc' = IF ret = "True" THEN "validate"
                     ELSE IF ret = "False" THEN "returned" ELSE "raised"
        /\ autoRet' = IF ret = "False" THEN "False" ELSE autoRet
    /\ UNCHANGED <<autoFlag, autoAnswer, cwd>>
    /\ AutoFrame

\* 4. validate_contract
AutoValidateStep ==
    /\ autoPc = "validate"
    /\ \E ok \in BOOLEAN :
        /\ autoSteps' = Append(autoSteps, Step("validate", ok))
        /\ autoPc' = IF ok THEN "build" ELSE "returned"
        /\ autoRet' = IF ok THEN autoRet ELSE "False"
    /\ cwd' = DirAfterOperation(cwd)
    /\ UNCHANGED <<autoFlag, autoAnswer, autoGen, fs>>
    /\ AutoFrame

\* 5. build_contract
AutoBuildStep ==
    /\ autoPc = "build"
    /\ \E ok \in BOOLEAN :
        /\ autoSteps' = Append(autoSteps, Step("build", ok))
        /\ autoPc' = IF ok THEN "ask" ELSE "returned"
        /\ autoRet' = IF ok THEN autoRet ELSE "False"
    /\ cwd' = DirAfterOperation(cwd)
    /\ UNCHANGED <<autoFlag, autoAnswer, autoGen, fs>>
    /\ AutoFrame

\* the step after the deploy question, whatever the command line said
AfterAnswer(flag, answer) ==
    IF answer = "EOF" THEN "raised"
    ELSE IF SaysYes(answer) THEN "deploy"
    ELSE "returned"

\* 6. deploy_choice = input("Do you want to deploy the contract to Devnet? (y/n): ")
AutoAsk ==
    /\ autoPc = "ask"
    /\ \E answer \in Answers :
        /\ autoAnswer' = answer
        /\ autoPc' = AfterAnswer(autoFlag, answer)
        /\ autoRet' = IF AfterAnswer(autoFlag, answer) = "returned" THEN "True" ELSE autoRet
    /\ autoSteps' = Append(autoSteps, Step("ask", TRUE))
    /\ UNCHANGED <<autoFlag, autoGen, fs, cwd>>
    /\ AutoFrame

\* 6. deploy_contract, when the answer was y
AutoDeployStep ==
    /\ autoPc = "deploy"
    /\ \E ok \in BOOLEAN :
        /\ autoSteps' = Append(autoSteps, Step("deploy", ok))
        /\ autoRet' = IF ok THEN "True" ELSE "False"
    /\ autoPc' = "returned"
    /\ cwd' = DirAfterOperation(cwd)
    /\ UNCHANGED <<autoFlag, autoAnswer, autoGen, fs>>
    /\ AutoFrame

AutoNext ==
    \/ AutoStart
    \/ AutoSync
    \/ AutoCargo
    \/ AutoGenerate
    \/ AutoValidateStep
    \/ AutoBuildStep
    \/ AutoAsk
    \/ AutoDeployStep

AutoSpec == AutoInit /\ [][AutoNext]_vars

\* C14: ContractAutomation.generate_contract returns True exactly when the LLM
\* produced the contract code that was written to lib.rs, and returns False
\* without raising otherwise (LLM request failed, LLM response empty).
C14_GenerateResult ==
    autoGen.called =>
        /\ autoGen.ret # "raised"
        /\ autoGen.ret = "True" <=>
                (autoGen.llm.ok /\ fs[LibRsPath] = File(autoGen.llm.code))

\* C15: with --deploy, once generation, validation and build have succeeded the
\* deploy step runs and the user is not asked; without the flag the deploy step
\* runs exactly when the user answers yes.
C15_DeployFlag ==
    /\ autoFlag => autoAnswer = None
    /\ (autoFlag /\ autoPc = "returned" /\ Step("build", TRUE) \in Range(autoSteps)) =>
            "deploy" \in StepsRun
    /\ (~autoFlag /\ autoPc = "returned" /\ autoAnswer # None) =>
            ("deploy" \in StepsRun <=> SaysYes(autoAnswer))

\* C19: after validate_contract, build_contract or deploy_contract returns, the
\* working directory is the one the process was in before the call (the same
\* finally: os.chdir(root_dir) ends smart_contract_build_loop and
\* deploy_contract_from_loop).
C19_CwdRestored ==
    [][ (/\ Len(autoSteps') = Len(autoSteps) + 1
         /\ autoSteps'[Len(autoSteps')].step \in {"validate", "build", "deploy"})
        => cwd' = cwd ]_vars

\* the steps of run_automation in their order; the deploy question is not one
PipelineOrder == <<"sync", "cargo", "generate", "validate", "build", "deploy">>

IsPipelineStep(s) == s.step # "ask"

\* a step that ends the run when it fails
Aborting == {"generate", "validate", "build", "deploy"}

\* step number i ran after an earlier step `name` that succeeded
RanAfterSuccess(i, name) == \E j \in 1..(i-1) : autoSteps[j] = Step(name, TRUE)

\* the steps run so far are the first steps of the pipeline, in order
C22_InOrder ==
    LET run == SelectSeq(autoSteps, IsPipelineStep)
    IN /\ Len(run) <= Len(PipelineOrder)
       /\ \A i \in 1..Len(run) : run[i].step = PipelineOrder[i]

\* every step ran only after the step before it succeeded
C22_OnlyAfterSuccess ==
    \A i \in 1..Len(autoSteps) :
        /\ autoSteps[i].step = "validate" => RanAfterSuccess(i, "generate")
        /\ autoSteps[i].step = "build" => RanAfterSuccess(i, "validate")
        /\ autoSteps[i].step = "deploy" => RanAfterSuccess(i, "build")

\* C22: run_automation runs sync, cargo, generate, validate, build, deploy in
\* this order; a failed sync or Cargo.toml update does not end the run;
\* validate, build and deploy run only after the step before them succeeded;
\* once generate, validate, build or deploy fails no later step runs and the
\* run returns False.
C22_FixedOrder ==
    /\ C22_InOrder
    /\ C22_OnlyAfterSuccess
    /\ (autoPc \in {"returned", "raised"}) => "generate" \in StepsRun
    /\ \A i \in 1..Len(autoSteps) :
        (autoSteps[i].step \in Aborting /\ ~autoSteps[i].ok) =>
            /\ i = Len(autoSteps)
            /\ autoPc = "returned"
            /\ autoRet = "False"

\* ------------------------------------------------------------------------
\* One run of deploy_contract() of ai/deploy_contract.py
\* ------------------------------------------------------------------------

\* checks the wait loop of start_solana_validator makes before its 30 s are over
MaxChecks == 3

MOCK_PROGRAM_ID == "5xot9PVdxmjKsgfgc4KX7Gfp3f3SJszQNkyxNHr4bTAw"

\* json.dump({"programId": ..., "is_mock": True}, file)
MockConfig == [exists |-> TRUE, programId |-> MOCK_PROGRAM_ID, is_mock |-> TRUE]
Config(id) == [exists |-> TRUE, programId |-> id, is_mock |-> FALSE]

\* how a subprocess call ends: exit 0, a non-zero exit, or an exception
\* (the command is missing, the timeout expires)
RunOutcomes == {"ok", "fail", "raise"}

ValInit ==
    /\ fs = EmptyFs
    /\ anchorToml = NoFile
    /\ cargoToml = NoFile
    /\ programInfo = NoInfo
    /\ keypair \in KeypairKeys
    /\ cwd \in {BackDir, RootDir}
    /\ LoopIdle
    /\ HistInit
    /\ ProcIdle
    /\ PatchIdle
    /\ DeployIdle
    /\ ApiIdle
    /\ MoreIdle

ValFrame ==
    /\ UNCHANGED fileVars
    /\ UNCHANGED loopVars
    /\ UNCHANGED histVars
    /\ UNCHANGED <<procVars, lastUpdate>>
    /\ UNCHANGED <<patchVars, deployVars, apiVars, autoVars, aiVars>>

\* deploy_contract returns the mock program ID and writes the mock config
ReturnMock ==
    /\ valPc' = "returned"
    /\ valRet' = MOCK_PROGRAM_ID
    /\ configFile' = MockConfig

\* start_solana_validator, lines 26-33 and 77-83: the first check
ValFirstCheck ==
    /\ valPc = "start"
    /\ valCalls' = valCalls \cup {"solana cluster-version"}
    /\ \E r \in RunOutcomes :
        CASE r = "ok" -> /\ valConfirmed' = TRUE
                         /\ valPc' = "config"
                         /\ UNCHANGED <<valRet, configFile>>
          [] r = "fail" -> /\ valPc' = "ps"
                           /\ UNCHANGED <<valConfirmed, valRet, configFile>>
          [] r = "raise" -> /\ ReturnMock
                            /\ UNCHANGED valConfirmed
    /\ UNCHANGED valChecks
    /\ ValFrame

\* lines 36-56: an old validator is killed, a new one is started
ValStartValidator ==
    /\ valPc = "ps"
    /\ \E found \in BOOLEAN, started \in BOOLEAN :
        /\ valCalls' = valCalls \cup {"ps", "solana-test-validator"}
                          \cup (IF found THEN {"pkill"} ELSE {})
        /\ IF started
           THEN /\ valPc' = "wait"
                /\ UNCHANGED <<valRet, configFile>>
           ELSE ReturnMock
    /\ UNCHANGED <<valChecks, valConfirmed>>
    /\ ValFrame

\* lines 61-74: one more check while the 30 s are not over
ValWaitCheck ==
    /\ valPc = "wait"
    /\ valChecks < MaxChecks
    /\ valChecks' = valChecks + 1
    /\ \E r \in RunOutcomes :
        IF r = "ok"
        THEN /\ valConfirmed' = TRUE
             /\ valPc' = "config"
        ELSE UNCHANGED <<valConfirmed, valPc>>
    /\ UNCHANGED <<valCalls, valRet, configFile>>
    /\ ValFrame

\* lines 61, 76, 85: the 30 s are over without a check that succeeded;
\* "Proceeding anyway...", start_solana_validator returns True
ValWaitOver ==
    /\ valPc = "wait"
    /\ valChecks >= 1
    /\ valPc' = "config"
    /\ UNCHANGED <<valChecks, valConfirmed, valCalls, valRet, configFile>>
    /\ ValFrame

\* deploy_contract, lines 174-186: solana config set, clean_deploy_folder
ValConfig ==
    /\ valPc = "config"
    /\ valCalls' = valCalls \cup {"solana config set"}
    /\ \E r \in RunOutcomes :
        CASE r = "ok" -> /\ valPc' = "build"
                         /\ UNCHANGED <<valRet, configFile>>
          [] r = "fail" -> /\ valPc' = "returned"
                           /\ valRet' = None
                           /\ UNCHANGED configFile
          [] r = "raise" -> ReturnMock
    /\ UNCHANGED <<valChecks, valConfirmed>>
    /\ ValFrame

\* lines 188-206: anchor build
ValBuild ==
    /\ valPc = "build"
    /\ valCalls' = valCalls \cup {"anchor build"}
    /\ \E r \in RunOutcomes :
        IF r = "ok"
        THEN /\ valPc' = "deploy"
             /\ UNCHANGED <<valRet, configFile>>
        ELSE ReturnMock
    /\ UNCHANGED <<valChecks, valConfirmed>>
    /\ ValFrame

\* how anchor deploy ends: exit 0, "Connection refused", an error that names
\* the program's pubkey, another error, an exception
DeployOutcomes == {"ok", "refused", "pubkey", "other", "raise"}

\* lines 208-245: anchor deploy
ValDeploy ==
    /\ valPc = "deploy"
    /\ valCalls' = valCalls \cup {"anchor deploy"}
    /\ \E r \in DeployOutcomes :
        CASE r = "ok" -> /\ valPc' = "keypair"
                         /\ UNCHANGED <<valRet, configFile>>
          [] r = "pubkey" -> /\ valPc' = "returned"
                             /\ valRet' = PidB
                             /\ configFile' = Config(PidB)
          [] OTHER -> ReturnMock
    /\ UNCHANGED <<valChecks, valConfirmed>>
    /\ ValFrame

\* lines 247-256: get_program_keypair, None when there is no keypair file or
\* `solana address` fails
ValKeypair ==
    /\ valPc = "keypair"
    /\ \E addressOk \in BOOLEAN :
        IF keypair # None /\ addressOk
        THEN /\ valPc' = "returned"
             /\ valRet' = keypair
             /\ configFile' = Config(keypair)
        ELSE ReturnMock
    /\ UNCHANGED <<valChecks, valConfirmed, valCalls>>
    /\ ValFrame

ValNext ==
    \/ ValFirstCheck
    \/ ValStartValidator
    \/ ValWaitCheck
    \/ ValWaitOver
    \/ ValConfig
    \/ ValBuild
    \/ ValDeploy
    \/ ValKeypair

ValSpec == ValInit /\ [][ValNext]_vars

\* C16: anchor build and anchor deploy are invoked only in runs where a
\* `solana cluster-version` check has succeeded; a run in which the validator
\* was not confirmed returns the mock program ID without building.
C16_ValidatorFirst ==
    /\ (valCalls \cap {"anchor build", "anchor deploy"} # {}) => valConfirmed
    /\ (valPc = "returned" /\ ~valConfirmed) =>
            (valRet = MOCK_PROGRAM_ID /\ configFile = MockConfig)

\* ------------------------------------------------------------------------
\* The server of back/ai/main.py: POST /generate-contract, POST /update-contract
\* ------------------------------------------------------------------------

MaxAiRequests == 2

\* request.program_id: absent, or an ID of the caller's
RequestIds == {None, PidB}

AiRequest(op, pid, code) == [op |-> op, program_id |-> pid, contract_code |-> code]

\* ContractResponse(success=..., contract_code=..., program_id=...)
AiResponse(success, code, pid) ==
    [status |-> 200, success |-> success, contract_code |-> code, program_id |-> pid]

\* raise HTTPException(status_code=500, ...)
AiError == [status |-> 500, success |-> FALSE, contract_code |-> NoCode,
            program_id |-> None]

\* contract_generator.extract_program_id_from_deployed_contract: the programId
\* of program-info.json, None without the file
generator_program_id(info) == IF info.exists THEN info.programId ELSE None

\* used_program_id: the base58 declare_id! of the returned code, else program_id
used_program_id(code, pid) ==
    IF extract_program_id_from_contract(code) # None
    THEN extract_program_id_from_contract(code)
    ELSE pid

\* what the LLM may answer to an update request: also code that names
\* declare_id! without the ("...") ; form, and code that holds the ID outside
\* a declare_id!
Contract3 == <<UseLine, DeclComment, ProgramAttr, PubStruct>>
Contract4 == <<UseLine, Mention(PidA), ProgramAttr, PubStruct>>
UpdateResponses == LLMOutcomes \cup {LLMText(Contract3), LLMText(Contract4)}

AiInit ==
    /\ fs \in {EmptyFs, [EmptyFs EXCEPT ![LibRsPath] = File(FallbackContract)]}
    /\ anchorToml = NoFile
    /\ cargoToml = NoFile
    /\ programInfo \in {NoInfo, Info(PidB)}
    /\ keypair \in KeypairKeys
    /\ cwd = BackDir
    /\ LoopIdle
    /\ HistInit
    /\ ProcIdle
    /\ PatchIdle
    /\ DeployIdle
    /\ ApiIdle
    /\ MoreIdle

AiFrame ==
    /\ UNCHANGED <<anchorToml, cargoToml, programInfo, keypair, cwd>>
    /\ UNCHANGED loopVars
    /\ UNCHANGED histVars
    /\ UNCHANGED procVars
    /\ UNCHANGED <<patchVars, deployVars, apiVars, autoVars, valVars>>

\* generate_contract_endpoint: request.program_id is read into program_id and
\* is not an argument of generate_smart_contract
AiGenerate ==
    /\ aiServed < MaxAiRequests
    /\ aiServed' = aiServed + 1
    /\ \E pid \in RequestIds, resp \in LLMOutcomes :
        LET program_id_ == IF Truthy(pid) THEN pid
                           ELSE generator_program_id(programInfo)
            code == generate_contract_with_ai(resp)
        IN
        /\ aiReq' = AiRequest("generate", pid, NoCode)
        /\ fs' = [fs EXCEPT ![LibRsPath] = File(code.code)]
        /\ aiResp' = IF ~code.ok THEN AiError
                      ELSE IF code.code = <<>> THEN AiResponse(FALSE, NoCode, None)
                      ELSE AiResponse(TRUE, code,
                                      used_program_id(code.code, program_id_))
    /\ UNCHANGED lastUpdate
    /\ AiFrame

\* update_contract_endpoint: `import re` runs only in the branch taken when
\* request.program_id is empty, and re is a local name of the function, so
\* with a program_id the re.search after the update raises; update_contract
\* is called without the request's program_id
AiUpdate ==
    /\ aiServed < MaxAiRequests
    /\ aiServed' = aiServed + 1
    /\ \E pid \in RequestIds, old \in GivenContracts, resp \in UpdateResponses,
          keygenOk \in BOOLEAN :
        LET program_id_ ==
                IF Truthy(pid) THEN pid
                ELSE IF extract_program_id_from_contract(old) # None
                     THEN extract_program_id_from_contract(old)
                     ELSE generator_program_id(programInfo)
            id == SelectProgramId(old, programInfo, fs[LibRsPath],
                                  IF keygenOk THEN keypair ELSE None)
            code == UpdatedContract(resp, id)
        IN
        /\ aiReq' = AiRequest("update", pid, Code(old))
        /\ fs' = IF code.ok THEN WriteUpdate(fs, LibRsPath, code.code) ELSE fs
        /\ lastUpdate' = [n |-> lastUpdate.n + 1, ret |-> code, path |-> LibRsPath,
                          id |-> id, keygen |-> IF keygenOk THEN keypair ELSE None]
        /\ aiResp' = IF ~code.ok \/ code.code = <<>>
                      THEN AiResponse(FALSE, NoCode, None)
                      ELSE IF Truthy(pid) THEN AiError
                      ELSE AiResponse(TRUE, code,
                                      used_program_id(code.code, program_id_))
    /\ AiFrame

AiNext ==
    \/ AiGenerate
    \/ AiUpdate

AiSpec == AiInit /\ [][AiNext]_vars

\* C17: a request that carries a program_id is answered with a contract that
\* declares that ID and with that ID as the response's program_id.
C17_SuppliedIdUsed ==
    (aiReq.program_id # None /\ aiResp.success) =>
        /\ HasDeclareIdOf(aiResp.contract_code.code, aiReq.program_id)
        /\ aiResp.program_id = aiReq.program_id

\* C18: whenever update_contract returns code, the code contains the statement
\* declare_id!("<id>"); for the program ID the call selected, whatever the LLM
\* returned.
C18_ProgramIdSet ==
    (lastUpdate.n > 0 /\ lastUpdate.ret.ok) =>
        HasDeclareIdOf(lastUpdate.ret.code, lastUpdate.id)

====
